---------------------------- MODULE Spec2Model ----------------------------
(***************************************************************************)
(* A model of the code review pipeline of src/src/agents/                  *)
(* code_reviewer_agent.py (CodeReviewerAgent: five stage handlers run in a *)
(* fixed order over one shared state dict) and of the session store of     *)
(* src/src/services/json_result_saver.py (JSONResultSaver: one JSON file   *)
(* holding a list of per-session records).                                 *)
(*                                                                         *)
(* A Python dict is a function whose domain is the set of keys present.    *)
(* A key holding None is modelled as an absent key: every read of the      *)
(* state in the modelled code is a .get() or follows an assignment.        *)
(***************************************************************************)
EXTENDS Integers, Sequences, FiniteSets, TLC

VARIABLES
    state,                 \* CodeReviewState of the run (a dict)
    pc,                    \* the node the graph runs next, "END" or "crashed"
    specification,         \* SpecValidator.specification is non-empty
    sessions_file,         \* content of sessions.json (a list of dicts)
    current_session_data,  \* JSONResultSaver.current_session_data
    clock,                 \* datetime.now(), as a counter
    trace,                 \* history: the nodes entered, in order
    calls,                 \* history: the collaborators invoked, in order
    raised,                \* history: the messages of the exceptions raised
    saved,                 \* history: the saves completed, <<session, node, message>>
    writers,               \* SpecRace: each concurrent save call's position
    call                   \* one call of a helper: its arguments and result

vars == <<state, pc, specification, sessions_file, current_session_data,
          clock, trace, calls, raised, saved, writers, call>>

pipelineVars == <<state, pc, specification, trace, calls, raised>>
storeVars == <<sessions_file, current_session_data, clock, saved>>

\* no helper is being called
NoCall == [fn |-> "none"]

-----------------------------------------------------------------------------
(* Bounds of the model *)

MaxPaths == 2       \* longest file_paths list given to a run
MaxSaves == 4       \* save_node_result calls in SpecStore
MaxRaceSaves == 2   \* save_node_result calls of each writer in SpecRace
MaxTokens == 4      \* longest answer of the language model, in tokens
MaxChunks == 2      \* longest streamed answer, in chunks
MaxCategories == 2  \* categories of the specification that are validated
MaxViolations == 6  \* violations the analysis reports in one category
MaxIssues == 4      \* issues found in one file
MaxTotal == 1       \* requirements the answer counts in one category

-----------------------------------------------------------------------------
(* Python dicts *)

EmptyDict == [k \in {} |-> k]

Has(d, k) == k \in DOMAIN d

Put(d, k, v) == [y \in DOMAIN d \cup {k} |-> IF y = k THEN v ELSE d[y]]

Remove(d, k) == [y \in DOMAIN d \ {k} |-> d[y]]

\* bool(d.get(k)) for a key that holds a str
TruthyStr(d, k) == Has(d, k) /\ d[k] # ""

\* bool(d.get(k)) for a key that holds a list or a dict
TruthySeq(d, k) == Has(d, k) /\ d[k] # <<>>

-----------------------------------------------------------------------------
(* JSONResultSaver *)

NodeNames == {"read_files", "standards_check", "spec_validation",
              "requirement_validation", "generate_reports"}

_load_sessions(file) == file

_save_sessions(sessions) == sessions

\* lines 45-52: the in-memory record of the session, created on first use
RememberSession(mem, now, session_id, node_name, result_message) ==
    LET mem1 == IF Has(mem, session_id) THEN mem
                ELSE Put(mem, session_id,
                         [session_id |-> session_id, timestamp |-> now])
    IN  [mem1 EXCEPT ![session_id] = Put(@, node_name, result_message)]

\* line 48 reads the clock only when the session is new to this saver
TakesTimestamp(mem, session_id) == ~Has(mem, session_id)

SessionFoundAppendAlways(sessions, session_id) == FALSE

\* lines 59-60: some record of the loaded list carries this session_id
SessionFound(sessions, session_id) ==
    \E i \in DOMAIN sessions : sessions[i]["session_id"] = session_id

\* the first such record: the loop breaks on it (line 63)
FirstIndex(sessions, session_id) ==
    CHOOSE i \in DOMAIN sessions :
        /\ sessions[i]["session_id"] = session_id
        /\ \A j \in 1..(i - 1) : sessions[j]["session_id"] # session_id

\* the record is started again with this result alone
RestartRecord(session, node_name, result_message) ==
    Put([session_id |-> session["session_id"],
         timestamp |-> session["timestamp"]], node_name, result_message)

\* line 61: session[node_name] = result_message
SetNodeResult(session, node_name, result_message) ==
    Put(session, node_name, result_message)

\* lines 57-72: set the key in the session's record, or append a new record
UpdateSessions(sessions, mem, session_id, node_name, result_message) ==
    IF SessionFound(sessions, session_id)
    THEN [sessions EXCEPT ![FirstIndex(sessions, session_id)] =
              SetNodeResult(@, node_name, result_message)]
    ELSE Append(sessions,
                Put([session_id |-> session_id,
                     timestamp |-> mem[session_id]["timestamp"]],
                    node_name, result_message))

\* the saver as a value: [file, mem, clock]
save_node_result(sv, session_id, node_name, result_message) ==
    LET mem2 == RememberSession(sv.mem, sv.clock, session_id, node_name,
                                result_message)
        sessions == _load_sessions(sv.file)
    IN  [file  |-> _save_sessions(UpdateSessions(sessions, mem2, session_id,
                                                  node_name, result_message)),
         mem   |-> mem2,
         clock |-> IF TakesTimestamp(sv.mem, session_id)
                   THEN sv.clock + 1 ELSE sv.clock]

get_session_results(file, session_id) ==
    LET sessions == _load_sessions(file)
    IN  IF SessionFound(sessions, session_id)
        THEN sessions[FirstIndex(sessions, session_id)]
        ELSE [error |-> "Session " \o session_id \o " not found"]

Saver == [file |-> sessions_file, mem |-> current_session_data,
          clock |-> clock]

-----------------------------------------------------------------------------
(* SpecStore: save_node_result called one call at a time, by savers that   *)
(* share one sessions file.                                                *)

StoreSessions == {"s1", "s2"}
StoreNodes == {"read_files", "standards_check"}
StoreMessages == {"ok", "failed"}

IdleWriters == [w \in {} |-> w]

StoreInit ==
    /\ sessions_file = <<>>
    /\ current_session_data = EmptyDict
    /\ clock = 0
    /\ saved = <<>>
    /\ state = EmptyDict
    /\ pc = "store"
    /\ specification = FALSE
    /\ trace = <<>>
    /\ calls = <<>>
    /\ raised = <<>>
    /\ writers = IdleWriters
    /\ call = NoCall

SaveCall ==
    /\ Len(saved) < MaxSaves
    /\ \E s \in StoreSessions, n \in StoreNodes, m \in StoreMessages :
          LET sv == save_node_result(Saver, s, n, m)
          IN  /\ sessions_file' = sv.file
              /\ current_session_data' = sv.mem
              /\ clock' = sv.clock
              /\ saved' = Append(saved, <<s, n, m>>)
    /\ UNCHANGED <<pipelineVars, writers, call>>

\* a new JSONResultSaver over the same directory (lines 10-14)
NewSaver ==
    /\ current_session_data # EmptyDict
    /\ current_session_data' = EmptyDict
    /\ UNCHANGED <<sessions_file, clock, saved, pipelineVars, writers, call>>

StoreNext == SaveCall \/ NewSaver

SpecStore == StoreInit /\ [][StoreNext]_vars

\* C9: after any sequence of save_node_result calls made one at a time, no
\* two records of the sessions file carry the same session_id, and every
\* <<session, node>> saved so far is a key of that session's one record.
C9_OneRecordPerSession ==
    /\ \A i, j \in DOMAIN sessions_file :
          sessions_file[i]["session_id"] = sessions_file[j]["session_id"]
              => i = j
    /\ \A k \in DOMAIN saved :
          Cardinality({i \in DOMAIN sessions_file :
                          /\ sessions_file[i]["session_id"] = saved[k][1]
                          /\ Has(sessions_file[i], saved[k][2])}) = 1

\* stage_A then stage_B saved for one session, next to another session
C9_Witness ==
    /\ Len(sessions_file) = 2
    /\ \E i \in DOMAIN sessions_file :
          /\ sessions_file[i]["session_id"] = "s1"
          /\ Has(sessions_file[i], "read_files")
          /\ Has(sessions_file[i], "standards_check")

-----------------------------------------------------------------------------
(* SpecRace: two savers (two processes over one output directory), each    *)
(* saving results of its own session.  A call reads the file (lines 45-55) *)
(* and writes it back (lines 57-75) in two steps; nothing in the code      *)
(* keeps another call from running between them.                           *)

Writers == {"w1", "w2"}

SessionOf(w) == IF w = "w1" THEN "s1" ELSE "s2"

RaceInit ==
    /\ sessions_file = <<>>
    /\ current_session_data = EmptyDict
    /\ clock = 0
    /\ saved = <<>>
    /\ state = EmptyDict
    /\ pc = "race"
    /\ specification = FALSE
    /\ trace = <<>>
    /\ calls = <<>>
    /\ raised = <<>>
    /\ writers = [w \in Writers |->
                     [at |-> "idle", mem |-> EmptyDict, sessions |-> <<>>,
                      node_name |-> "", result_message |-> "", done |-> 0]]
    /\ call = NoCall

\* lines 45-55: remember the result in memory, then _load_sessions()
RaceLoad(w) ==
    /\ writers[w].at = "idle"
    /\ writers[w].done < MaxRaceSaves
    /\ \E n \in StoreNodes, m \in StoreMessages :
          /\ writers' = [writers EXCEPT ![w] =
                 [at |-> "loaded",
                  mem |-> RememberSession(writers[w].mem, clock, SessionOf(w),
                                          n, m),
                  sessions |-> _load_sessions(sessions_file),
                  node_name |-> n, result_message |-> m,
                  done |-> writers[w].done]]
          /\ clock' = IF TakesTimestamp(writers[w].mem, SessionOf(w))
                      THEN clock + 1 ELSE clock
    /\ UNCHANGED <<sessions_file, current_session_data, saved, pipelineVars, call>>

\* lines 57-75: update the loaded list and _save_sessions() it
RaceWrite(w) ==
    /\ writers[w].at = "loaded"
    /\ sessions_file' = _save_sessions(
           UpdateSessions(writers[w].sessions, writers[w].mem, SessionOf(w),
                          writers[w].node_name, writers[w].result_message))
    /\ saved' = Append(saved, <<SessionOf(w), writers[w].node_name,
                                writers[w].result_message>>)
    /\ writers' = [writers EXCEPT ![w].at = "idle", ![w].done = @ + 1]
    /\ UNCHANGED <<current_session_data, clock, pipelineVars, call>>

RaceNext == \E w \in Writers : RaceLoad(w) \/ RaceWrite(w)

SpecRace == RaceInit /\ [][RaceNext]_vars

\* C10: when no save call is in progress, every stage key that a completed
\* call wrote, for either session, is present in the sessions file.
C10_NoLostUpdate ==
    (\A w \in Writers : writers[w].at = "idle") =>
        \A k \in DOMAIN saved :
            \E i \in DOMAIN sessions_file :
                /\ sessions_file[i]["session_id"] = saved[k][1]
                /\ Has(sessions_file[i], saved[k][2])

-----------------------------------------------------------------------------
(* The file system the run reads, and FileReader *)

\* a file_paths entry that is not a str: os.path.isfile raises TypeError
InvalidPath == "<None>"

Paths == {"main.py", "notes.txt", "locked.py", "missing.py", "pkg", "empty",
          InvalidPath}

isfile(path) == path \in {"main.py", "notes.txt", "locked.py", "pkg/app.js"}

isdir(path) == path \in {"pkg", "empty"}

\* open(file_path) succeeds
Readable(path) == path \in {"main.py", "notes.txt", "pkg/app.js"}

\* the supported files glob finds under a directory
DirFiles(path) == IF path = "pkg" THEN <<"pkg/app.js">> ELSE <<>>

basename(path) == IF path = "pkg/app.js" THEN "app.js" ELSE path

splitext(path) ==
    CASE path \in {"main.py", "locked.py", "missing.py"} -> ".py"
      [] path = "notes.txt" -> ".txt"
      [] path \in {"pkg/app.js", "app.js"} -> ".js"
      [] OTHER -> ""

FileText(path) ==
    CASE path = "main.py" -> "import os; def main(): pass"
      [] path = "notes.txt" -> "import re; def helper(): pass"
      [] OTHER -> "function f() {}"

read_single_file(file_path) ==
    IF Readable(file_path)
    THEN [file_name |-> basename(file_path), file_path |-> file_path,
          code |-> FileText(file_path), extension |-> splitext(file_path)]
    ELSE [file_name |-> basename(file_path), file_path |-> file_path,
          error |-> "Failed to read file: PermissionError"]

read_directory(directory_path) ==
    [i \in DOMAIN DirFiles(directory_path) |->
        read_single_file(DirFiles(directory_path)[i])]

RECURSIVE read_files_from_paths(_)
read_files_from_paths(paths) ==
    IF paths = <<>> THEN <<>>
    ELSE LET path == Head(paths)
             found == IF isfile(path) THEN <<read_single_file(path)>>
                      ELSE IF isdir(path) THEN read_directory(path)
                      ELSE <<[file_name |-> basename(path),
                              file_path |-> path,
                              error |-> "Path does not exist or is not a file/directory"]>>
         IN  found \o read_files_from_paths(Tail(paths))

\* os.path.isfile(path) raises before any list is returned
ReadRaises(paths) == \E i \in DOMAIN paths : paths[i] = InvalidPath

TypeErrorMessage == "stat: path should be string, bytes, os.PathLike or integer, not NoneType"

-----------------------------------------------------------------------------
(* CodeReviewerAgent: helpers *)

_detect_language_from_extension(extension) ==
    CASE extension = ".py" -> "python"
      [] extension = ".java" -> "java"
      [] extension = ".js" -> "javascript"
      [] extension = ".ts" -> "typescript"
      [] extension = ".cpp" -> "cpp"
      [] extension = ".c" -> "c"
      [] extension = ".h" -> "c"
      [] extension = ".hpp" -> "cpp"
      [] extension = ".cs" -> "csharp"
      [] extension = ".go" -> "go"
      [] extension = ".rs" -> "rust"
      [] extension = ".php" -> "php"
      [] extension = ".rb" -> "ruby"
      [] extension = ".swift" -> "swift"
      [] extension = ".kt" -> "kotlin"
      [] extension = ".scala" -> "scala"
      [] OTHER -> "unknown"

\* uuid4(): an id no session carries yet
generate_session_id == "s-new"

\* lines 88-104; what a handler hands back is [state, saver, calls, raised,
\* escaped]: the state it returns, the saver after it, the collaborators
\* invoked and the exceptions raised so far, and whether an exception left
\* the handler
_save_node_result(st, sv, node_name, result_message) ==
    LET st1 == IF TruthyStr(st, "session_id") THEN st
               ELSE Put(st, "session_id", generate_session_id)
    IN  [state |-> st1,
         saver |-> save_node_result(sv, st1["session_id"], node_name,
                                    result_message)]

\* every stage files its result in the first slot
MisfiledSlot(node) == "standards_result"

\* lines 212, 170, 248 and 265, 385: the slot a stage writes its result to
ResultSlot(node) ==
    CASE node = "standards_check" -> "standards_result"
      [] node = "spec_validation" -> "spec_validation"
      [] node = "requirement_validation" -> "requirement_validation"
      [] node = "generate_reports" -> "consolidated_report"

Return(st, sv, cl, rs) ==
    [state |-> st, saver |-> sv, calls |-> cl, raised |-> rs,
     escaped |-> FALSE]

SaveAndReturn(st, sv, cl, rs, node_name, result_message) ==
    LET r == _save_node_result(st, sv, node_name, result_message)
    IN  Return(r.state, r.saver, cl, rs)

\* an exception leaves the handler: the graph applies no update of the node
Escape(w, cl, rs) ==
    [state |-> w.state, saver |-> w.saver, calls |-> cl, raised |-> rs,
     escaped |-> TRUE]

-----------------------------------------------------------------------------
(* read_files_node, lines 106-157 *)

\* an ingestion failure that leaves no fault behind
SetFaultDropped(st, message) == st

\* lines 129 and 139: state["error"] = message
SetFault(st, message) == Put(st, "error", message)

\* every record is dropped
ValidFilesNone(files_info) == <<>>

\* lines 115-124
RECURSIVE ValidFiles(_)
ValidFiles(files_info) ==
    IF files_info = <<>> THEN <<>>
    ELSE LET file_info == Head(files_info)
         IN  (IF ~Has(file_info, "error")
              THEN <<[file_name |-> file_info["file_name"],
                      language |-> _detect_language_from_extension(
                                       file_info["extension"]),
                      code |-> file_info["code"]]>>
              ELSE <<>>) \o ValidFiles(Tail(files_info))

\* lines 149-153
ReadFilesMessage(st) ==
    IF Has(st, "error") THEN "Error reading files: " \o st["error"]
    ELSE "Successfully read "
         \o ToString(IF Has(st, "files") THEN Len(st["files"]) ELSE 0)
         \o " files"

read_files_node(w) ==
    LET st0 == Put(w.state, "current_step", "read_files")
    IN  IF TruthySeq(st0, "file_paths")
        THEN LET cl == Append(w.calls, "file_reader")
             IN  IF ReadRaises(st0["file_paths"])
                 THEN \* lines 144-146, then on to the save
                      LET st1 == Put(st0, "error",
                                     "Error reading files: " \o TypeErrorMessage)
                      IN  SaveAndReturn(st1, w.saver, cl,
                                        Append(w.raised, TypeErrorMessage),
                                        "read_files", ReadFilesMessage(st1))
                 ELSE LET valid_files ==
                              ValidFiles(read_files_from_paths(st0["file_paths"]))
                          st1 == Put(st0, "files", valid_files)
                      IN  IF valid_files = <<>>
                          THEN \* lines 128-130: return state
                               Return(SetFault(st1,
                                          "No valid files found to analyze"),
                                      w.saver, cl, w.raised)
                          ELSE SaveAndReturn(st1, w.saver, cl, w.raised,
                                             "read_files", ReadFilesMessage(st1))
        ELSE IF TruthyStr(st0, "code")
        THEN LET st1 == Put(st0, "files",
                            <<[file_name |-> "main.py", language |-> "python",
                               code |-> st0["code"]]>>)
             IN  SaveAndReturn(st1, w.saver, w.calls, w.raised,
                               "read_files", ReadFilesMessage(st1))
        ELSE \* lines 138-140: return state
             Return(SetFault(st0, "No code or file paths provided"),
                    w.saver, w.calls, w.raised)

-----------------------------------------------------------------------------
(* CodeStandardsChecker, src/src/tools/code_standard_tool.py *)

\* needle in code, for the texts of this model's files
Contains(code, needle) ==
    CASE needle \in {"def ", "import"} ->
             code \in {FileText("main.py"), FileText("notes.txt")}
      [] needle = "function " -> code = FileText("pkg/app.js")
      [] OTHER -> FALSE

\* not code.strip()
Blank(code) == code \in {"", " "}

language_map(ext) ==
    CASE ext = ".py" -> "python"
      [] ext = ".java" -> "java"
      [] ext \in {".js", ".ts"} -> "javascript"
      [] ext \in {".cpp", ".c", ".h", ".hpp"} -> "cpp"
      [] OTHER -> ""

detect_language(code, file_path) ==
    IF file_path # "" /\ language_map(splitext(file_path)) # ""
    THEN language_map(splitext(file_path))
    ELSE IF Contains(code, "import java") THEN "java"
    ELSE IF Contains(code, "def ")
            /\ (Contains(code, "import") \/ Contains(code, "from "))
    THEN "python"
    ELSE IF Contains(code, "function ") \/ Contains(code, "console.log")
            \/ Contains(code, "const ") \/ Contains(code, "let ")
    THEN "javascript"
    ELSE IF Contains(code, "#include") THEN "cpp"
    ELSE "unknown"

\* what the external command prints for a tool, in this model's environment
run_command(tool) ==
    CASE tool = "Flake8" -> "E501 line too long"
      [] tool = "MyPy" -> "Tool not found: mypy"
      [] OTHER -> "No issues found."

ToolsOf(lang) ==
    CASE lang = "python" -> <<"Pylint", "Flake8", "Ruff", "Bandit", "MyPy">>
      [] lang = "java" -> <<"Checkstyle", "PMD">>
      [] lang = "javascript" -> <<"ESLint", "Prettier">>
      [] lang = "cpp" -> <<"clang-tidy", "cppcheck">>
      [] OTHER -> <<"Semgrep">>

analyze_single_file(file_info) ==
    LET code == IF Has(file_info, "code") THEN file_info["code"] ELSE ""
        file_path == IF Has(file_info, "file_name")
                     THEN file_info["file_name"] ELSE "unknown"
        lang == IF TruthyStr(file_info, "language")
                THEN file_info["language"]
                ELSE detect_language(code, file_path)
    IN  [file_name |-> file_path, language |-> lang, code |-> code,
         analysis |->
            IF Blank(code)
            THEN <<[tool |-> "General",
                    result |-> "File is empty or contains only whitespace"]>>
            ELSE [i \in DOMAIN ToolsOf(lang) |->
                     [tool |-> ToolsOf(lang)[i],
                      result |-> run_command(ToolsOf(lang)[i])]]]

\* lines 298-314: the reports replace state["files"]; the state is returned
analyze_files(st) ==
    LET files == IF Has(st, "files") THEN st["files"] ELSE <<>>
    IN  Put(st, "files", [i \in DOMAIN files |-> analyze_single_file(files[i])])

\* "No issues" in result, "No output" in result
IsIssue(result) == result \notin {"", "No issues found.", "No output"}

RECURSIVE CountIssues(_)
CountIssues(files) ==
    IF files = <<>> THEN 0
    ELSE Cardinality({i \in DOMAIN Head(files)["analysis"] :
                         IsIssue(Head(files)["analysis"][i]["result"])})
         + CountIssues(Tail(files))

\* code_reviewer_agent.py lines 443-459
_calculate_standards_summary(standards_result) ==
    IF standards_result = EmptyDict \/ ~Has(standards_result, "files")
    THEN "No standards data"
    ELSE ToString(Len(standards_result["files"])) \o " files, "
         \o ToString(CountIssues(standards_result["files"])) \o " issues"

-----------------------------------------------------------------------------
(* standards_check_node, lines 201-232 *)

\* the tool call returns, or raises (print at code_standard_tool.py line
\* 300 is outside the per-file try)
StandardsEnvs ==
    {[raises |-> FALSE],
     [raises |-> TRUE, message |-> "'ascii' codec can't encode characters"]}

\* lines 224-228
StandardsMessage(st) ==
    IF Has(st, "error") THEN "Standards analysis failed: " \o st["error"]
    ELSE "Standards analysis completed: "
         \o _calculate_standards_summary(
                IF Has(st, "standards_result") THEN st["standards_result"]
                ELSE EmptyDict)

\* lines 206-232.  analyze_files returns the state dict itself, so
\* standards_result is the state; of it, its readers use the key "files".
standards_check_work(w, env) ==
    LET st0 == Put(w.state, "current_step", "standards_check")
        cl == Append(w.calls, "standards_tool")
    IN  IF env.raises
        THEN LET st1 == Put(st0, "error",
                            "Standards analysis failed: " \o env.message)
             IN  SaveAndReturn(st1, w.saver, cl, Append(w.raised, env.message),
                               "standards_check", StandardsMessage(st1))
        ELSE LET result == analyze_files(st0)
                 st1 == Put(result, ResultSlot("standards_check"),
                            [files |-> result["files"]])
             IN  SaveAndReturn(st1, w.saver, cl, w.raised,
                               "standards_check", StandardsMessage(st1))

\* a handler without its guard
standards_check_unguarded(w, env) == standards_check_work(w, env)

standards_check_node(w, env) ==
    IF Has(w.state, "error")
    THEN Return(w.state, w.saver, w.calls, w.raised)
    ELSE standards_check_work(w, env)

-----------------------------------------------------------------------------
(* SpecValidator, src/src/tools/spec_validator_tool.py *)

\* validation_steps as the categories' results, in the dict's order
StepsClean ==
    <<[category |-> "naming_conventions", yaml_rules |-> <<"NC001", "NC002">>,
       json_analysis |-> [detailed_violations |-> <<>>],
       streaming_analysis |-> [streaming_content |-> "All rules are met."]]>>

StepsViolating ==
    <<[category |-> "naming_conventions", yaml_rules |-> <<"NC001", "NC002">>,
       json_analysis |->
           [detailed_violations |->
               <<[rule_id |-> "NC001", severity |-> "high"],
                 [rule_id |-> "NC002", severity |-> "low"]>>],
       streaming_analysis |-> [streaming_content |-> "Two names break rules."]],
      [category |-> "security", yaml_rules |-> <<"SEC001">>,
       json_analysis |-> [error |-> "Failed to parse JSON"],
       streaming_analysis |-> [streaming_content |-> "No secrets found."]]>>

CountsOf(results) ==
    Has(results["json_analysis"], "detailed_violations")

RECURSIVE TotalViolations(_)
TotalViolations(validation_steps) ==
    IF validation_steps = <<>> THEN 0
    ELSE (IF CountsOf(Head(validation_steps))
          THEN Len(Head(validation_steps)["json_analysis"]["detailed_violations"])
          ELSE 0) + TotalViolations(Tail(validation_steps))

RECURSIVE TotalRulesApplied(_)
TotalRulesApplied(validation_steps) ==
    IF validation_steps = <<>> THEN 0
    ELSE (IF CountsOf(Head(validation_steps))
          THEN Len(Head(validation_steps)["yaml_rules"])
          ELSE 0) + TotalRulesApplied(Tail(validation_steps))

Min(a, b) == IF a <= b THEN a ELSE b

Max(a, b) == IF a >= b THEN a ELSE b

\* the penalty without its floor
OverallScoreUnfloored(total_violations, total_rules_applied) ==
    100 - total_violations * 10

\* lines 472-476
OverallScore(total_violations, total_rules_applied) ==
    IF total_rules_applied > 0
    THEN Max(0, 100 - Min(total_violations * 10, 100))
    ELSE 100

_get_compliance_level(score) ==
    IF score >= 90 THEN "EXCELLENT"
    ELSE IF score >= 75 THEN "GOOD"
    ELSE IF score >= 60 THEN "FAIR"
    ELSE "POOR"

_calculate_overall_metrics(validation_steps) ==
    LET total_violations == TotalViolations(validation_steps)
        total_rules_applied == TotalRulesApplied(validation_steps)
        overall_score == OverallScore(total_violations, total_rules_applied)
    IN  [total_categories_validated |-> Len(validation_steps),
         total_yaml_rules_applied |-> total_rules_applied,
         total_violations_found |-> total_violations,
         overall_compliance_score |-> overall_score,
         compliance_level |-> _get_compliance_level(overall_score)]

\* lines 37-66; env.run is what the validation in the worker thread did:
\* it returned the categories' results, or raised
validate_code(st, env) ==
    IF ~TruthySeq(st, "files") THEN [error |-> "No files to validate"]
    ELSE IF ~specification THEN [error |-> "No specification file loaded"]
    ELSE IF env.run = "raise"
    THEN [error |-> "Specification validation failed: " \o env.message]
    ELSE [validation_steps |-> env.steps,
          overall_metrics |-> _calculate_overall_metrics(env.steps)]

\* the validator got as far as its calls of the language model
SpecToolCalls(st) ==
    IF TruthySeq(st, "files") /\ specification
    THEN <<"spec_tool", "llm">> ELSE <<"spec_tool">>

-----------------------------------------------------------------------------
(* spec_validation_node, lines 159-199 *)

\* env.dump: writing ./spec_validationoutput.json (lines 176-177) succeeds
\* or raises
SpecEnvs ==
    {[run |-> "ok", steps |-> StepsClean, dump |-> "ok"],
     [run |-> "ok", steps |-> StepsViolating, dump |-> "ok"],
     [run |-> "ok", steps |-> StepsViolating, dump |-> "raise",
      message |-> "[Errno 13] Permission denied"],
     [run |-> "raise", message |-> "Connection error.", dump |-> "ok"]}

\* lines 191-195
SpecMessage(st) ==
    IF Has(st, "error")
    THEN "Specification validation failed: " \o st["error"]
    ELSE "Specification validation completed with "
         \o ToString(IF Has(st, "spec_validation")
                        /\ Has(st["spec_validation"], "overall_metrics")
                     THEN st["spec_validation"]["overall_metrics"]
                              ["overall_compliance_score"]
                     ELSE 0)
         \o "% compliance score"

spec_validation_work(w, env) ==
    LET st0 == Put(w.state, "current_step", "spec_validation")
        cl == w.calls \o SpecToolCalls(st0)
        result == validate_code(st0, env)
        st1 == Put(st0, ResultSlot("spec_validation"), result)
    IN  IF ~Has(result, "error") /\ env.dump = "raise"
        THEN LET st2 == Put(st1, "error",
                            "Specification validation failed: " \o env.message)
             IN  SaveAndReturn(st2, w.saver, cl, Append(w.raised, env.message),
                               "spec_validation", SpecMessage(st2))
        ELSE SaveAndReturn(st1, w.saver, cl, w.raised,
                           "spec_validation", SpecMessage(st1))

\* a handler that resets the fault before its work
spec_validation_clearing(w, env) ==
    spec_validation_work([w EXCEPT !.state = Remove(w.state, "error")], env)

spec_validation_node(w, env) ==
    IF Has(w.state, "error")
    THEN Return(w.state, w.saver, w.calls, w.raised)
    ELSE spec_validation_work(w, env)

-----------------------------------------------------------------------------
(* RequirementValidator, src/src/tools/requirement_validator_tool.py *)

\* a score of the structured answer: a number [num |-> n], or something
\* else that the JSON carried, such as a string [str |-> "n/a"]
IsNumber(score) == Has(score, "num")

\* lines 434-465, the part the pipeline reads
_create_fallback_structure ==
    [alignment_analysis |-> [overall_alignment_score |-> [num |-> 0]],
     parse_error |-> TRUE]

\* lines 27-101.  env.shape: "error", the validation raised (lines 48, 95);
\* "fallback", the structured task failed (line 132) or its answer did not
\* parse (line 387); "json", the parsed answer, which is the model's own
\* JSON object and may carry any key, "error" among them (env.error_key)
validate_requirements(st, env) ==
    IF ~TruthySeq(st, "requirements")
    THEN [skipped |-> TRUE,
          reason |-> "No requirements provided for validation"]
    ELSE IF ~TruthySeq(st, "files")
    THEN [error |-> "No code files available for requirement validation"]
    ELSE IF env.shape = "error"
    THEN [error |-> "Requirement validation failed: " \o env.message]
    ELSE LET analysis_result ==
                 IF env.shape = "fallback" THEN _create_fallback_structure
                 ELSE IF env.error_key
                 THEN [alignment_analysis |->
                           [overall_alignment_score |-> env.score],
                       error |-> "could not analyse"]
                 ELSE [alignment_analysis |->
                           [overall_alignment_score |-> env.score]]
         IN  Put(analysis_result, "files_analyzed", Len(st["files"]))

RequirementToolCalls(st, env) ==
    IF TruthySeq(st, "requirements") /\ TruthySeq(st, "files")
       /\ env.shape # "error"
    THEN <<"requirement_tool", "llm">> ELSE <<"requirement_tool">>

-----------------------------------------------------------------------------
(* requirement_validation_node, lines 234-291 *)

\* env.dump: writing requirement_validation.json (lines 267-268) succeeds
\* or raises
RequirementEnvs ==
    {[shape |-> "error", message |-> "Connection error.", dump |-> "ok"],
     [shape |-> "fallback", dump |-> "ok"],
     [shape |-> "json", error_key |-> FALSE, score |-> [num |-> 85],
      dump |-> "ok"],
     [shape |-> "json", error_key |-> FALSE, score |-> [num |-> 85],
      dump |-> "raise", message |-> "[Errno 13] Permission denied"],
     [shape |-> "json", error_key |-> FALSE, score |-> [str |-> "n/a"],
      dump |-> "ok"],
     [shape |-> "json", error_key |-> TRUE, score |-> [str |-> "n/a"],
      dump |-> "ok"]}

FormatError == "Unknown format code 'f' for object of type 'str'"

PercentFormatError == "Unknown format code '%' for object of type 'str'"

\* f"{score:.1%}"
FormatPercent(score) == ToString(score["num"] * 100) \o ".0%"

\* result.get("alignment_analysis", {}).get("overall_alignment_score", 0)
AlignmentScore(result) ==
    IF Has(result, "alignment_analysis")
    THEN result["alignment_analysis"]["overall_alignment_score"]
    ELSE [num |-> 0]

\* lines 258-278: what the try block leaves, [state, raised]
RequirementTry(st0, rs, env) ==
    LET result == validate_requirements(st0, env)
        st1 == Put(st0, ResultSlot("requirement_validation"),
                   result)
    IN  IF env.dump = "raise"
        THEN [state |-> Put(st1, "error",
                            "Requirement validation failed: " \o env.message),
              raised |-> Append(rs, env.message)]
        ELSE IF ~Has(result, "error") /\ ~IsNumber(AlignmentScore(result))
        THEN \* line 272, f"{coverage_score:.2f}"
             [state |-> Put(st1, "error",
                            "Requirement validation failed: " \o FormatError),
              raised |-> Append(rs, FormatError)]
        ELSE [state |-> st1, raised |-> rs]

\* a handler that hands every state to its tool
NeverSkips(st) == FALSE

\* line 246: if not state.get("requirements")
SkipsRequirements(st) == ~TruthySeq(st, "requirements")

requirement_validation_work(w, env) ==
    LET st0 == Put(w.state, "current_step", "requirement_validation")
    IN  IF SkipsRequirements(st0)
        THEN \* lines 246-252: return state
             Return(Put(st0, ResultSlot("requirement_validation"),
                        [skipped |-> TRUE,
                         reason |-> "No requirements provided for validation"]),
                    w.saver, w.calls, w.raised)
        ELSE LET cl == w.calls \o RequirementToolCalls(st0, env)
                 t == RequirementTry(st0, w.raised, env)
                 st == t.state
             IN  IF Has(st, "error")
                 THEN SaveAndReturn(st, w.saver, cl, t.raised,
                          "requirement_validation",
                          "Requirement validation failed: " \o st["error"])
                 ELSE IF Has(st["requirement_validation"], "skipped")
                 THEN SaveAndReturn(st, w.saver, cl, t.raised,
                          "requirement_validation",
                          "Requirement validation skipped: No requirements provided")
                 ELSE IF ~IsNumber(AlignmentScore(st["requirement_validation"]))
                 THEN \* line 287, f"{score:.1%}", outside the try
                      Escape(w, cl, Append(t.raised, PercentFormatError))
                 ELSE SaveAndReturn(st, w.saver, cl, t.raised,
                          "requirement_validation",
                          "Requirement validation completed with "
                          \o FormatPercent(
                                 AlignmentScore(st["requirement_validation"]))
                          \o " alignment score")

\* the stage runs whatever the fault
requirement_validation_unguarded(w, env) == requirement_validation_work(w, env)

requirement_validation_node(w, env) ==
    IF Has(w.state, "error")
    THEN Return(w.state, w.saver, w.calls, w.raised)
    ELSE requirement_validation_work(w, env)

-----------------------------------------------------------------------------
(* ConsolidatedReporter and generate_reports_node, lines 373-419 *)

\* consolidated_reporter_tool.py lines 18-57: the report's locations, or an
\* error result; print at line 20 is outside the try and may raise
ReporterEnvs ==
    {[tool |-> "ok", exists |-> TRUE],
     [tool |-> "ok", exists |-> FALSE],
     [tool |-> "error", message |-> "[Errno 28] No space left on device"],
     [tool |-> "raise", message |-> "'ascii' codec can't encode character"]}

\* consolidated_reporter_tool.py lines 72-85; the argument is {} for None
\* and {d} for a dict d
_extract_yaml_spec_data(yaml_spec_data) ==
    IF yaml_spec_data = {} THEN [available |-> FALSE]
    ELSE LET d == CHOOSE x \in yaml_spec_data : TRUE
         IN  IF DOMAIN d = {} THEN [available |-> FALSE]
             ELSE IF Has(d, "error")
             THEN [available |-> FALSE, error |-> d["error"]]
             ELSE [available |-> TRUE,
                   validation_steps |-> IF Has(d, "validation_steps")
                                        THEN d["validation_steps"] ELSE EmptyDict,
                   overall_metrics |-> IF Has(d, "overall_metrics")
                                       THEN d["overall_metrics"] ELSE EmptyDict]

\* consolidated_reporter_tool.py lines 59-70: the specification section is
\* read from state.get("yaml_spec_data")
_extract_analysis_data(st) ==
    [yaml_spec |-> _extract_yaml_spec_data(IF Has(st, "yaml_spec_data")
                                           THEN {st["yaml_spec_data"]} ELSE {}),
     files_analyzed |-> IF Has(st, "files") THEN Len(st["files"]) ELSE 0,
     error |-> IF Has(st, "error") THEN {st["error"]} ELSE {}]

generate_consolidated_report(st, env) ==
    IF env.tool = "ok"
    THEN [html_report_path |-> "full_report/comprehensive_code_review.html",
          report_directory |-> "full_report",
          json_summary_path |-> "full_report/detailed_analysis.json"]
    ELSE [error |-> "Report generation failed: " \o env.message]

\* lines 408-415
ReportsMessage(st) ==
    IF Has(st, "error") THEN "Report generation failed: " \o st["error"]
    ELSE IF Has(st, "consolidated_report")
            /\ TruthyStr(st["consolidated_report"], "html_report_path")
    THEN "Reports generated successfully: "
         \o st["consolidated_report"]["html_report_path"]
    ELSE "Report generation completed but no HTML path found"

\* the report file is taken to be there
AlwaysExists(env) == TRUE

\* line 391: os.path.exists(html_path)
exists(env) == env.exists

generate_reports_work(w, env) ==
    LET st0 == Put(w.state, "current_step", "generate_reports")
        cl == Append(w.calls, "reporter_tool")
    IN  IF env.tool = "raise"
        THEN LET st1 == Put(st0, "error",
                            "Report generation failed: " \o env.message)
             IN  SaveAndReturn(st1, w.saver, cl, Append(w.raised, env.message),
                               "generate_reports", ReportsMessage(st1))
        ELSE LET result == generate_consolidated_report(st0, env)
                 st1 == Put(st0, ResultSlot("generate_reports"), result)
                 st2 == IF Has(result, "error")
                        THEN Put(st1, "error", result["error"])
                        ELSE IF TruthyStr(result, "html_report_path")
                                /\ exists(env)
                        THEN st1
                        ELSE Put(st1, "error",
                                 "Report files were not created properly")
             IN  SaveAndReturn(st2, w.saver, cl, w.raised,
                               "generate_reports", ReportsMessage(st2))

\* a handler without its guard
generate_reports_unguarded(w, env) == generate_reports_work(w, env)

generate_reports_node(w, env) ==
    IF Has(w.state, "error")
    THEN Return(w.state, w.saver, w.calls, w.raised)
    ELSE generate_reports_work(w, env)

-----------------------------------------------------------------------------
(* The compiled workflow, lines 68-86, and a run of it, lines 505-560 *)

EntryPoint == "read_files"

EdgeSkippingSpec(node) ==
    CASE node = "read_files" -> "standards_check"
      [] node = "standards_check" -> "requirement_validation"
      [] node = "spec_validation" -> "standards_check"
      [] node = "requirement_validation" -> "generate_reports"
      [] node = "generate_reports" -> "END"

Edge(node) ==
    CASE node = "read_files" -> "standards_check"
      [] node = "standards_check" -> "spec_validation"
      [] node = "spec_validation" -> "requirement_validation"
      [] node = "requirement_validation" -> "generate_reports"
      [] node = "generate_reports" -> "END"

\* the inputs of a run; an absent key is the empty set, a given one {value}
RECURSIVE PathLists(_)
PathLists(n) ==
    IF n = 0 THEN {<<>>}
    ELSE PathLists(n - 1)
         \cup {Append(l, p) : l \in {x \in PathLists(n - 1) : Len(x) = n - 1},
                              p \in Paths}

FilePathInputs == {{}} \cup {{l} : l \in PathLists(MaxPaths)}

CodeInputs == {{}, {""}, {"x = 1"}}

RequirementInputs ==
    {{}, {EmptyDict}, {[user_stories |-> <<"As a user, I want to login">>]}}

SessionIdInputs == {{}, {"s1"}}

\* a record an earlier run left in sessions.json
EarlierSession ==
    [session_id |-> "s0", timestamp |-> 0, read_files |-> "Successfully read 1 files"]

PutGiven(d, k, given) ==
    IF given = {} THEN d ELSE Put(d, k, CHOOSE v \in given : TRUE)

\* CodeReviewState(file_paths=..., requirements=..., session_id=...) of
\* review_files, CodeReviewState(code=..., ...) of review_code, or any dict
\* handed to workflow.ainvoke
InitialState(file_paths, code, requirements, session_id) ==
    PutGiven(PutGiven(PutGiven(PutGiven(EmptyDict,
        "file_paths", file_paths), "code", code),
        "requirements", requirements), "session_id", session_id)

Init ==
    /\ \E file_paths \in FilePathInputs, code \in CodeInputs,
          requirements \in RequirementInputs, session_id \in SessionIdInputs :
          state = InitialState(file_paths, code, requirements, session_id)
    /\ pc = EntryPoint
    /\ specification \in BOOLEAN
    /\ sessions_file \in {<<>>, <<EarlierSession>>}
    /\ current_session_data = EmptyDict
    /\ clock = 1
    /\ trace = <<>>
    /\ calls = <<>>
    /\ raised = <<>>
    /\ saved = <<>>
    /\ writers = IdleWriters
    /\ call = NoCall

World == [state |-> state, saver |-> Saver, calls |-> calls,
          raised |-> raised]

\* one step of the graph: the node's handler runs to its return, and the
\* edge out of the node names the next one; an exception that leaves the
\* handler leaves ainvoke and review_files too
RunNode(node, r) ==
    /\ trace' = Append(trace, node)
    /\ state' = r.state
    /\ sessions_file' = r.saver.file
    /\ current_session_data' = r.saver.mem
    /\ clock' = r.saver.clock
    /\ calls' = r.calls
    /\ raised' = r.raised
    /\ pc' = IF r.escaped THEN "crashed" ELSE Edge(node)
    /\ UNCHANGED <<specification, saved, writers, call>>

ReadFiles ==
    /\ pc = "read_files"
    /\ RunNode("read_files", read_files_node(World))

StandardsCheck ==
    /\ pc = "standards_check"
    /\ \E env \in StandardsEnvs :
          RunNode("standards_check", standards_check_node(World, env))

SpecValidation ==
    /\ pc = "spec_validation"
    /\ \E env \in SpecEnvs :
          RunNode("spec_validation", spec_validation_node(World, env))

RequirementValidation ==
    /\ pc = "requirement_validation"
    /\ \E env \in RequirementEnvs :
          RunNode("requirement_validation",
                  requirement_validation_node(World, env))

GenerateReports ==
    /\ pc = "generate_reports"
    /\ \E env \in ReporterEnvs :
          RunNode("generate_reports", generate_reports_node(World, env))

Next ==
    \/ ReadFiles
    \/ StandardsCheck
    \/ SpecValidation
    \/ RequirementValidation
    \/ GenerateReports

Spec == Init /\ [][Next]_vars

-----------------------------------------------------------------------------
(* The two analyzers: parsing the structured answer, and joining it with   *)
(* the streamed narrative.  An answer of the language model is a sequence  *)
(* of tokens: a code fence, the word json, white space, the text of a JSON *)
(* object, the text of a JSON array, and text that is no JSON.             *)

\* three backquotes
Fence == "<fence>"

ObjectText == "{\"alignment_analysis\": {\"overall_alignment_score\": 85}}"

ArrayText == "[1, 2]"

BrokenText == "{\"alignment_analysis\": "

Tokens == {Fence, "json", " ", ObjectText, ArrayText, BrokenText}

RECURSIVE SeqsUpTo(_, _)
SeqsUpTo(S, n) ==
    IF n = 0 THEN {<<>>}
    ELSE SeqsUpTo(S, n - 1)
         \cup {Append(l, x) : l \in {y \in SeqsUpTo(S, n - 1) : Len(y) = n - 1},
                              x \in S}

\* str.strip()
RECURSIVE strip(_)
strip(s) ==
    IF s = <<>> THEN s
    ELSE IF Head(s) = " " THEN strip(Tail(s))
    ELSE IF s[Len(s)] = " " THEN strip(SubSeq(s, 1, Len(s) - 1))
    ELSE s

\* fence + "json" in content
HasJsonFence(content) ==
    \E i \in 1..(Len(content) - 1) : content[i] = Fence /\ content[i + 1] = "json"

HasFence(content) == \E i \in DOMAIN content : content[i] = Fence

\* content.split(fence)[0]
UpToFence(s) ==
    IF HasFence(s)
    THEN SubSeq(s, 1, (CHOOSE i \in DOMAIN s :
                          /\ s[i] = Fence
                          /\ \A j \in 1..(i - 1) : s[j] # Fence) - 1)
    ELSE s

\* content.split(fence + "json")[1].split(fence)[0]
AfterJsonFence(content) ==
    LET i == CHOOSE k \in 1..(Len(content) - 1) :
                 /\ content[k] = Fence /\ content[k + 1] = "json"
                 /\ \A j \in 1..(k - 1) :
                        ~(content[j] = Fence /\ content[j + 1] = "json")
    IN  UpToFence(SubSeq(content, i + 2, Len(content)))

\* content.split(fence)[1]
AfterFence(content) ==
    LET i == CHOOSE k \in DOMAIN content :
                 /\ content[k] = Fence
                 /\ \A j \in 1..(k - 1) : content[j] # Fence
    IN  UpToFence(SubSeq(content, i + 1, Len(content)))

\* lines 372-380 of requirement_validator_tool.py, 441-448 of
\* spec_validator_tool.py
ExtractJson(content) ==
    IF HasJsonFence(content) THEN strip(AfterJsonFence(content))
    ELSE IF HasFence(content)
    THEN LET json_str == strip(AfterFence(content))
         IN  IF json_str # <<>> /\ Head(json_str) = "json"
             THEN strip(Tail(json_str))
             ELSE json_str
    ELSE strip(content)

\* json.loads: the value, or raises
Loads(json_str) ==
    IF json_str = <<ObjectText>>
    THEN [value |-> "dict",
          dict |-> [alignment_analysis |->
                       [overall_alignment_score |-> [num |-> 85]]]]
    ELSE IF json_str = <<ArrayText>> THEN [value |-> "list"]
    ELSE [value |-> "raises"]

\* requirement_validator_tool.py lines 389-432: a dict gets the missing
\* sections; of a list, the item assignment raises
_validate_json_structure(result) ==
    IF Has(result, "alignment_analysis") THEN result
    ELSE Put(result, "alignment_analysis",
             [overall_alignment_score |-> [num |-> 0]])

\* requirement_validator_tool.py lines 369-387
RequirementParse(content) ==
    LET loaded == Loads(ExtractJson(content))
    IN  IF loaded.value = "dict" THEN _validate_json_structure(loaded.dict)
        ELSE _create_fallback_structure

\* spec_validator_tool.py lines 438-452
SpecParse(content) ==
    LET loaded == Loads(ExtractJson(content))
    IN  IF loaded.value = "dict" THEN loaded.dict
        ELSE IF loaded.value = "list" THEN [list |-> <<1, 2>>]
        ELSE [error |-> "Failed to parse JSON", raw_content |-> content]

\* full_response += content, over the chunks of the stream
RECURSIVE Accumulate(_)
Accumulate(chunks) ==
    IF chunks = <<>> THEN "" ELSE Head(chunks) \o Accumulate(Tail(chunks))

\* requirement_validator_tool.py lines 188-213: chunks of white space only
\* are dropped
RECURSIVE AccumulateNonBlank(_)
AccumulateNonBlank(chunks) ==
    IF chunks = <<>> THEN ""
    ELSE (IF Head(chunks) = " " THEN "" ELSE Head(chunks))
         \o AccumulateNonBlank(Tail(chunks))

\* requirement_validator_tool.py lines 169-233: the narrative, "" when the
\* stream raised
_beautified_streaming_analysis(stream) ==
    IF stream.raises THEN "" ELSE AccumulateNonBlank(stream.chunks)

\* requirement_validator_tool.py lines 144-167: [raises, result]
_create_json_analysis(json) ==
    IF json.raises THEN [raises |-> TRUE, message |-> json.message]
    ELSE [raises |-> FALSE, result |-> RequirementParse(json.content)]

\* requirement_validator_tool.py lines 103-142
_async_streaming_analysis(json, stream) ==
    LET json_result == _create_json_analysis(json)
        streaming_output == _beautified_streaming_analysis(stream)
    IN  IF json_result.raises THEN _create_fallback_structure
        ELSE json_result.result

\* spec_validator_tool.py lines 254-316
_get_yaml_category_json_analysis(json) ==
    IF json.raises THEN [error |-> "LLM analysis failed: " \o json.message]
    ELSE SpecParse(json.content)

\* spec_validator_tool.py lines 164-233
_get_yaml_category_streaming_analysis_no_print(stream) ==
    IF stream.raises
    THEN [error |-> "Streaming analysis failed: " \o stream.message,
          rules_applied |-> <<>>]
    ELSE [streaming_content |-> Accumulate(stream.chunks),
          chunk_count |-> Len(stream.chunks)]

\* spec_validator_tool.py lines 128-161
_validate_yaml_category(category_rules, json, stream) ==
    IF category_rules = <<>>
    THEN [yaml_rules |-> <<>>,
          json_analysis |-> [error |-> "No rules found in YAML"],
          streaming_analysis |-> [skipped |-> TRUE]]
    ELSE [yaml_rules |-> category_rules,
          json_analysis |-> _get_yaml_category_json_analysis(json),
          streaming_analysis |->
              _get_yaml_category_streaming_analysis_no_print(stream)]

\* what the structured call and the stream can do
JsonTasks ==
    {[raises |-> TRUE, message |-> "Connection error."]}
    \cup {[raises |-> FALSE, content |-> c] :
             c \in {<<ObjectText>>, <<BrokenText>>, <<Fence, "json", ObjectText, Fence>>}}

Chunks == {"Login is implemented. ", " ", "Logout is missing."}

StreamTasks ==
    {[raises |-> TRUE, message |-> "Connection error.", chunks |-> ch] :
        ch \in SeqsUpTo(Chunks, MaxChunks)}
    \cup {[raises |-> FALSE, chunks |-> ch] : ch \in SeqsUpTo(Chunks, MaxChunks)}

RuleLists == {<<>>, <<"NC001">>}

OtherVarsIdle ==
    /\ state = EmptyDict
    /\ pc = "call"
    /\ specification = FALSE
    /\ sessions_file = <<>>
    /\ current_session_data = EmptyDict
    /\ clock = 0
    /\ trace = <<>>
    /\ calls = <<>>
    /\ raised = <<>>
    /\ saved = <<>>
    /\ writers = IdleWriters

otherVars == <<state, pc, specification, sessions_file, current_session_data,
               clock, trace, calls, raised, saved, writers>>

AnalyzerInit ==
    /\ OtherVarsIdle
    /\ \/ \E content \in SeqsUpTo(Tokens, MaxTokens) :
             call = [fn |-> "none", given |-> "content", content |-> content]
       \/ \E json \in JsonTasks, stream \in StreamTasks, rules \in RuleLists :
             call = [fn |-> "none", given |-> "tasks", json |-> json,
                     stream |-> stream, category_rules |-> rules]

Answer(fn, result) ==
    /\ call' = [call EXCEPT !.fn = fn] @@ [result |-> result]
    /\ UNCHANGED otherVars

ParseRequirementAnswer ==
    /\ call.fn = "none" /\ call.given = "content"
    /\ Answer("RequirementValidator._parse_json_response",
              RequirementParse(call.content))

ParseSpecAnswer ==
    /\ call.fn = "none" /\ call.given = "content"
    /\ Answer("SpecValidator._parse_json_response", SpecParse(call.content))

AnalyzeRequirements ==
    /\ call.fn = "none" /\ call.given = "tasks"
    /\ Answer("RequirementValidator._async_streaming_analysis",
              _async_streaming_analysis(call.json, call.stream))

ValidateCategory ==
    /\ call.fn = "none" /\ call.given = "tasks"
    /\ Answer("SpecValidator._validate_yaml_category",
              _validate_yaml_category(call.category_rules, call.json,
                                      call.stream))

AnalyzerNext ==
    \/ ParseRequirementAnswer
    \/ ParseSpecAnswer
    \/ AnalyzeRequirements
    \/ ValidateCategory

SpecAnalyzers == AnalyzerInit /\ [][AnalyzerNext]_vars

-----------------------------------------------------------------------------
(* The scores: SpecValidator._calculate_overall_metrics and                *)
(* SecurityQualityAnalyzer._calculate_security_score                       *)

\* n violations, as the structured answer lists them
ViolationList(n) == [i \in 1..n |-> [rule_id |-> "NC001", severity |-> "high"]]

\* what _validate_yaml_category returns for a category: without rules no
\* analysis is made; with rules, the analysis failed or lists violations
CategoryResults ==
    {[category |-> "security", yaml_rules |-> <<>>,
      json_analysis |-> [error |-> "No rules found in YAML"]]}
    \cup {[category |-> "naming_conventions", yaml_rules |-> rules,
           json_analysis |-> [error |-> "LLM analysis failed: timeout"]] :
             rules \in {<<"NC001">>, <<"NC001", "NC002">>}}
    \cup {[category |-> "naming_conventions", yaml_rules |-> rules,
           json_analysis |-> [detailed_violations |-> ViolationList(n)]] :
             rules \in {<<"NC001">>, <<"NC001", "NC002">>},
             n \in 0..MaxViolations}

\* security_analyzer.py lines 294-300 and 306: severity_weights.get(severity, 1)
severity_weights(severity) ==
    CASE severity = "critical" -> 5
      [] severity = "high" -> 4
      [] severity = "medium" -> 3
      [] severity = "low" -> 1
      [] severity = "info" -> 0
      [] OTHER -> 1

\* the weights of all the issues, whatever their type
RECURSIVE total_weight_any_type(_)
total_weight_any_type(issues) ==
    IF issues = <<>> THEN 0
    ELSE severity_weights(IF Has(Head(issues), "severity")
                          THEN Head(issues)["severity"] ELSE "low")
         + total_weight_any_type(Tail(issues))

\* lines 302-306
RECURSIVE total_weight(_)
total_weight(issues) ==
    IF issues = <<>> THEN 0
    ELSE LET issue == Head(issues)
         IN  (IF Has(issue, "type")
                 /\ issue["type"] \in {"security", "vulnerability"}
              THEN severity_weights(IF Has(issue, "severity")
                                    THEN issue["severity"] ELSE "low")
              ELSE 0) + total_weight(Tail(issues))

\* security_analyzer.py lines 289-311; a score is counted in tenths, so
\* 10.0 is 100 and the penalty of 0.5 for a unit of weight is 5
_calculate_security_score(issues) ==
    IF issues = <<>> THEN 100
    ELSE LET penalty == Min(total_weight(issues) * 5, 90)
         IN  Max(100 - penalty, 10)

\* the issues Bandit, Safety and Pylint put on a file's list (lines 207-213,
\* 236-242, 263-269); Bandit spells its severities in capitals
Issues ==
    {[tool |-> "Bandit", type |-> "security", severity |-> sev] :
        sev \in {"critical", "high", "low", "info", "HIGH"}}
    \cup {[tool |-> "Bandit", type |-> "security"],
          [tool |-> "Safety", type |-> "vulnerability", severity |-> "medium"],
          [tool |-> "Pylint", type |-> "quality", severity |-> "high"]}

Categories == <<"user_stories", "functional_requirements",
                "security_requirements", "non_functional_requirements">>

\* what the structured answer says of one category
CategoryScores ==
    {[total |-> t, average_confidence_score |-> c] :
        t \in 0..MaxTotal, c \in {0, 50, 100}}

\* requirement-validation results: the structured answer of the language
\* model after _validate_json_structure, which computes none of its numbers
RequirementResults ==
    {[comprehensive_analysis |->
          [overall_alignment_scores |->
              [user_stories |-> us, functional_requirements |-> fr,
               security_requirements |-> sr,
               non_functional_requirements |-> nf]],
      alignment_analysis |-> [overall_alignment_score |-> [num |-> score]]] :
        us \in CategoryScores, fr \in CategoryScores, sr \in CategoryScores,
        nf \in CategoryScores, score \in {0, 50, 100}}

\* consolidated_reporter_tool.py lines 156-161
TotalRequirements(alignment_scores) ==
    alignment_scores["user_stories"]["total"]
    + alignment_scores["functional_requirements"]["total"]
    + alignment_scores["security_requirements"]["total"]
    + alignment_scores["non_functional_requirements"]["total"]

\* lines 172-183, times total_requirements
WeightedConfidence(alignment_scores) ==
    alignment_scores["user_stories"]["average_confidence_score"]
        * alignment_scores["user_stories"]["total"]
    + alignment_scores["functional_requirements"]["average_confidence_score"]
        * alignment_scores["functional_requirements"]["total"]
    + alignment_scores["security_requirements"]["average_confidence_score"]
        * alignment_scores["security_requirements"]["total"]
    + alignment_scores["non_functional_requirements"]["average_confidence_score"]
        * alignment_scores["non_functional_requirements"]["total"]

\* consolidated_reporter_tool.py lines 134-196; overall_score is the
\* quotient num / den of the weighted average
_extract_requirements_data(requirement_data) ==
    IF Has(requirement_data, "error")
    THEN [available |-> FALSE, error |-> requirement_data["error"]]
    ELSE IF Has(requirement_data, "skipped")
    THEN [available |-> FALSE, skipped |-> TRUE]
    ELSE LET alignment_scores ==
                 requirement_data["comprehensive_analysis"]
                                 ["overall_alignment_scores"]
             total_requirements == TotalRequirements(alignment_scores)
         IN  [available |-> TRUE,
              alignment_analysis |-> requirement_data["alignment_analysis"],
              overall_score |->
                  IF total_requirements > 0
                  THEN [num |-> WeightedConfidence(alignment_scores),
                        den |-> total_requirements]
                  ELSE [num |-> 0, den |-> 1],
              total_requirements |-> total_requirements]

ScoreInit ==
    /\ OtherVarsIdle
    /\ \/ \E steps \in SeqsUpTo(CategoryResults, MaxCategories) :
             call = [fn |-> "none", given |-> "steps",
                     validation_steps |-> steps]
       \/ \E issues \in SeqsUpTo(Issues, MaxIssues) :
             call = [fn |-> "none", given |-> "issues", issues |-> issues]
       \/ \E requirement_data \in
               RequirementResults
               \cup {[skipped |-> TRUE, reason |-> "No requirements provided for validation"],
                     [error |-> "No code files available for requirement validation"]} :
             call = [fn |-> "none", given |-> "requirement_data",
                     requirement_data |-> requirement_data]

CalculateOverallMetrics ==
    /\ call.fn = "none" /\ call.given = "steps"
    /\ Answer("SpecValidator._calculate_overall_metrics",
              _calculate_overall_metrics(call.validation_steps))

CalculateSecurityScore ==
    /\ call.fn = "none" /\ call.given = "issues"
    /\ Answer("SecurityQualityAnalyzer._calculate_security_score",
              _calculate_security_score(call.issues))

ExtractRequirementsData ==
    /\ call.fn = "none" /\ call.given = "requirement_data"
    /\ Answer("ConsolidatedReporter._extract_requirements_data",
              _extract_requirements_data(call.requirement_data))

ScoreNext ==
    \/ CalculateOverallMetrics
    \/ CalculateSecurityScore
    \/ ExtractRequirementsData

SpecScores == ScoreInit /\ [][ScoreNext]_vars

-----------------------------------------------------------------------------
(* The join of the two tasks of an analyzer: asyncio.create_task twice,    *)
(* asyncio.gather(..., return_exceptions=True), return, and the handler's  *)
(* assignment of the result to its slot.  call holds the analyzer's        *)
(* position (at) and the two tasks.                                        *)

Analyzers == {"RequirementValidator._async_streaming_analysis",
              "SpecValidator._validate_yaml_category"}

StageOf(fn) ==
    IF fn = "RequirementValidator._async_streaming_analysis"
    THEN "requirement_validation" ELSE "spec_validation"

\* the state a stage hands to its analyzer
AnalyzedState(fn) ==
    [files |-> <<[file_name |-> "main.py", language |-> "python",
                  code |-> FileText("main.py")]>>,
     requirements |-> [user_stories |-> <<"As a user, I want to login">>],
     current_step |-> StageOf(fn)]

JoinInit ==
    /\ \E fn \in Analyzers, json \in JsonTasks, stream \in StreamTasks :
          /\ call = [fn |-> fn, at |-> "gather",
                     json |-> [at |-> "created", task |-> json],
                     stream |-> [at |-> "created", task |-> stream,
                                 delivered |-> 0, full_response |-> ""]]
          /\ state = AnalyzedState(fn)
          /\ pc = StageOf(fn)
    /\ specification = TRUE
    /\ sessions_file = <<>>
    /\ current_session_data = EmptyDict
    /\ clock = 0
    /\ trace = <<>>
    /\ calls = <<>>
    /\ raised = <<>>
    /\ saved = <<>>
    /\ writers = IdleWriters

joinFrame == <<pc, specification, sessions_file, current_session_data, clock,
               trace, calls, raised, saved, writers>>

\* gather returns as soon as the structured task is done
GatherOnFirst(c) == c.json.at = "done"

\* asyncio.gather(json_task, streaming_task, return_exceptions=True): waits
\* for both tasks, whatever they return or raise
GatherReady(c) == c.json.at = "done" /\ c.stream.at = "done"

\* the structured task reaches its await of ainvoke
JsonInvoke ==
    /\ call.at = "gather" /\ call.json.at = "created"
    /\ call' = [call EXCEPT !.json.at = "invoked"]
    /\ UNCHANGED <<state, joinFrame>>

\* ainvoke returns or raises, and the task ends
JsonDone ==
    /\ call.at = "gather" /\ call.json.at = "invoked"
    /\ call' = [call EXCEPT !.json.at = "done"]
    /\ UNCHANGED <<state, joinFrame>>

\* the narrative task takes the next chunk of the stream
StreamChunk ==
    /\ call.at = "gather" /\ call.stream.at \in {"created", "streaming"}
    /\ call.stream.delivered < Len(call.stream.task.chunks)
    /\ LET content == call.stream.task.chunks[call.stream.delivered + 1]
           kept == IF call.fn = "RequirementValidator._async_streaming_analysis"
                      /\ content = " "
                   THEN "" ELSE content
       IN  call' = [call EXCEPT !.stream.at = "streaming",
                                !.stream.delivered = @ + 1,
                                !.stream.full_response = @ \o kept]
    /\ UNCHANGED <<state, joinFrame>>

\* the stream is exhausted, or it raises; either way the task ends
StreamDone ==
    /\ call.at = "gather" /\ call.stream.at \in {"created", "streaming"}
    /\ \/ call.stream.task.raises
       \/ call.stream.delivered = Len(call.stream.task.chunks)
    /\ call' = [call EXCEPT !.stream.at = "done"]
    /\ UNCHANGED <<state, joinFrame>>

\* gather is over and the analyzer returns its result
Join ==
    /\ call.at = "gather" /\ GatherReady(call)
    /\ call' = [call EXCEPT !.at = "returned"]
               @@ [result |->
                      IF call.fn = "RequirementValidator._async_streaming_analysis"
                      THEN _async_streaming_analysis(call.json.task,
                                                     call.stream.task)
                      ELSE _validate_yaml_category(<<"NC001">>, call.json.task,
                                                   call.stream.task)]
    /\ UNCHANGED <<state, joinFrame>>

\* code_reviewer_agent.py lines 170 and 265: state[slot] = result
WriteSlot ==
    /\ call.at = "returned"
    /\ state' = Put(state, ResultSlot(StageOf(call.fn)), call.result)
    /\ call' = [call EXCEPT !.at = "written"]
    /\ UNCHANGED joinFrame

JoinNext ==
    \/ JsonInvoke
    \/ JsonDone
    \/ StreamChunk
    \/ StreamDone
    \/ Join
    \/ WriteSlot

SpecJoin == JoinInit /\ [][JoinNext]_vars

-----------------------------------------------------------------------------
(* The event loop under the workflow: the handlers are coroutines that the *)
(* loop thread runs one at a time; a handler keeps the thread until it     *)
(* awaits or returns.  call holds the thread's holder, the handler's       *)
(* position and the steps another task of the same loop has taken.         *)

MaxToolCalls == 3
MaxOtherSteps == 3

\* the handlers that call a tool with tool.func(state)
ToolStages == {"standards_check", "spec_validation", "requirement_validation"}

\* what the tool's func does with the calling thread:
\*   "subprocess"  subprocess.run(command, timeout=60) once per analyzer
\*   "worker"      executor.submit(...) and then future.result()
ToolKind(stage) == IF stage = "standards_check" THEN "subprocess" ELSE "worker"

LoopInit ==
    /\ \E n \in 1..MaxToolCalls :
          call = [fn |-> "event_loop", thread |-> "free", at |-> "scheduled",
                  tool |-> "none", commands |-> n, remaining |-> n,
                  other |-> 0]
    /\ pc = "standards_check"
    /\ state = EmptyDict
    /\ specification = TRUE
    /\ sessions_file = <<>>
    /\ current_session_data = EmptyDict
    /\ clock = 0
    /\ trace = <<>>
    /\ calls = <<>>
    /\ raised = <<>>
    /\ saved = <<>>
    /\ writers = IdleWriters

loopFrame == <<state, specification, sessions_file, current_session_data,
               clock, trace, calls, raised, saved, writers>>

\* the loop runs the handler, which calls tool.func(state) on the loop's
\* thread: no await, no run_in_executor
RunStage ==
    /\ pc \in ToolStages
    /\ call.thread = "free" /\ call.at = "scheduled"
    /\ call' = [call EXCEPT !.thread = "stage", !.at = "in_tool",
                            !.tool = ToolKind(pc)]
    /\ UNCHANGED <<pc, loopFrame>>

\* a subprocess exits or times out, or the worker thread's asyncio.run is
\* over and future.result() returns
ToolCompletes ==
    /\ call.at = "in_tool"
    /\ IF call.tool = "subprocess" /\ call.remaining > 1
       THEN call' = [call EXCEPT !.remaining = @ - 1]
       ELSE call' = [call EXCEPT !.at = "tool_done", !.tool = "none"]
    /\ UNCHANGED <<pc, loopFrame>>

\* the handler returns its state, and the loop has its thread again
ReturnStage ==
    /\ call.at = "tool_done"
    /\ call' = [call EXCEPT !.thread = "free", !.at = "scheduled"]
    /\ pc' = Edge(pc)
    /\ UNCHANGED loopFrame

\* another task of the same loop runs up to its next await
OtherStep ==
    /\ call.thread = "free"
    /\ call.other < MaxOtherSteps
    /\ call' = [call EXCEPT !.other = @ + 1]
    /\ UNCHANGED <<pc, loopFrame>>

LoopNext ==
    \/ RunStage
    \/ ToolCompletes
    \/ ReturnStage
    \/ OtherStep

SpecLoop == LoopInit /\ [][LoopNext]_vars

-----------------------------------------------------------------------------
(* Properties of a run *)

AnalysisStages == {"standards_check", "spec_validation", "requirement_validation"}

LaterStages == AnalysisStages \cup {"generate_reports"}

Order == <<"read_files", "standards_check", "spec_validation",
           "requirement_validation", "generate_reports">>

Collaborators == {"standards_tool", "spec_tool", "requirement_tool",
                  "reporter_tool", "llm"}

\* C1: a stage handler after ingestion (standards_check, spec_validation,
\* requirement_validation, generate_reports) that is entered with the fault
\* set returns the state with every field unchanged and invokes neither its
\* tool nor the language model.
C1_FaultGuard ==
    [][(pc \in LaterStages /\ Has(state, "error"))
       => (state' = state /\ calls' = calls)]_vars

\* the fault of ingestion has passed all four guards
C1_Witness ==
    /\ pc = "END"
    /\ Has(state, "error")
    /\ state["current_step"] = "read_files"
    /\ \A i \in DOMAIN calls : calls[i] \notin Collaborators

\* path is a readable file, or a directory that holds one
ReadableUnder(path) ==
    IF isdir(path)
    THEN \E j \in DOMAIN DirFiles(path) : Readable(DirFiles(path)[j])
    ELSE isfile(path) /\ Readable(path)

\* no file paths and no inline code, or no readable file among the paths
IngestionFails(st) ==
    IF TruthySeq(st, "file_paths")
    THEN \A i \in DOMAIN st["file_paths"] : ~ReadableUnder(st["file_paths"][i])
    ELSE ~TruthyStr(st, "code")

\* C2: in a run whose ingestion fails, read_files has set the fault when it
\* returns, before any analysis stage begins, and standards_check,
\* spec_validation and requirement_validation then write neither their
\* result slot nor any other field of the state.
C2_IngestionFailureStopsAnalysis ==
    /\ [](IngestionFails(state) /\ pc # "read_files"
          => /\ Has(state, "error")
             /\ ~Has(state, "standards_result")
             /\ ~Has(state, "spec_validation")
             /\ ~Has(state, "requirement_validation"))
    /\ [][(IngestionFails(state) /\ pc \in AnalysisStages)
          => state' = state]_vars

\* paths were given, none of them readable, and the analysis stages are past
C2_Witness ==
    /\ pc = "generate_reports"
    /\ IngestionFails(state)
    /\ TruthySeq(state, "file_paths")
    /\ Len(trace) = 4

\* C3: once the fault is set in a run it is never cleared: in every later
\* state, through the return of the last stage, the fault is still set and
\* no stage has replaced it with an empty value.
C3_FaultNeverCleared ==
    [][Has(state, "error")
       => (Has(state', "error") /\ state'["error"] # "")]_vars

\* a fault set in the middle of the run is still there at the end
C3_Witness ==
    /\ pc = "END"
    /\ Has(state, "error")
    /\ state["current_step"] = "spec_validation"

\* C4: the stages of a run execute one after the other in the order
\* read_files, standards_check, spec_validation, requirement_validation,
\* generate_reports: the handlers entered so far are a prefix of that order,
\* the next one to start is the successor of the last one returned, and no
\* handler is entered twice.
C4_Sequential ==
    /\ Len(trace) <= Len(Order)
    /\ \A i \in DOMAIN trace : trace[i] = Order[i]
    /\ pc \in NodeNames => pc = Order[Len(trace) + 1]
    /\ pc = "END" => trace = Order

\* a run without a fault has gone through all five stages
C4_Witness ==
    /\ pc = "END"
    /\ trace = Order
    /\ ~Has(state, "error")

FaultPrefixes == {"Error reading files: ", "Standards analysis failed: ",
                  "Specification validation failed: ",
                  "Requirement validation failed: ",
                  "Report generation failed: "}

ReportProduced(st) ==
    /\ Has(st, "consolidated_report")
    /\ TruthyStr(st["consolidated_report"], "html_report_path")

\* the fault is the one generate_reports set itself
RendererFailed(st) ==
    Has(st, "error") /\ st["current_step"] = "generate_reports"

C7_SkipIsRecorded ==
    [][(pc = "generate_reports" /\ Has(state, "error"))
       => /\ calls' = calls
          /\ \/ state' # state
             \/ sessions_file' # sessions_file
             \/ current_session_data' # current_session_data]_vars

\* the handlers of the run that have returned
Returned ==
    IF pc = "crashed" THEN SubSeq(trace, 1, Len(trace) - 1) ELSE trace

\* C8: after a stage handler returns, the session store holds a summary of
\* that stage under the run's session_id, whether the stage succeeded,
\* failed, skipped its work or returned early on a fault.
C8_EveryStagePersisted ==
    \A i \in DOMAIN Returned :
        /\ Has(state, "session_id")
        /\ \E j \in DOMAIN sessions_file :
              /\ sessions_file[j]["session_id"] = state["session_id"]
              /\ Has(sessions_file[j], Returned[i])

-----------------------------------------------------------------------------
(* Properties of the analyzers *)

\* the narrative text a result of an analyzer holds
NarrativeOf(result) ==
    IF Has(result, "streaming_analysis")
       /\ Has(result["streaming_analysis"], "streaming_content")
    THEN result["streaming_analysis"]["streaming_content"]
    ELSE ""

\* the defaults of the fallback schema, flagged
IsFallback(result) ==
    /\ Has(result, "parse_error")
    /\ result["parse_error"] = TRUE
    /\ Has(result, "alignment_analysis")
    /\ result["alignment_analysis"]["overall_alignment_score"] = [num |-> 0]

JoinedCall ==
    call.fn \in {"RequirementValidator._async_streaming_analysis",
                 "SpecValidator._validate_yaml_category"}

\* C11: when the structured call of an analyzer raises and the stream
\* succeeds, the analyzer's result holds the defaults of the fallback
\* schema and the whole narrative the stream delivered.
C11_FallbackKeepsNarrative ==
    (/\ JoinedCall
     /\ call.category_rules # <<>>
     /\ call.json.raises
     /\ ~call.stream.raises
     /\ call.stream.chunks # <<>>)
    => /\ IsFallback(IF call.fn = "SpecValidator._validate_yaml_category"
                     THEN call.result["json_analysis"] ELSE call.result)
       /\ NarrativeOf(call.result) = Accumulate(call.stream.chunks)

\* no token of the answer is the text of a JSON value
Malformed(content) ==
    \A i \in DOMAIN content : content[i] \notin {ObjectText, ArrayText}

\* C12: of a malformed answer, the parser of either validator returns the
\* fallback schema, all scores zero, flagged parse_error = true.
C12_MalformedGivesFallback ==
    (/\ call.fn \in {"RequirementValidator._parse_json_response",
                     "SpecValidator._parse_json_response"}
     /\ Malformed(call.content))
    => IsFallback(call.result)

-----------------------------------------------------------------------------
(* Properties of a run, continued *)

\* C13: requirement_validation, entered without a fault and without
\* requirements (absent or empty), sets its result slot to
\* {skipped: true, reason: ...} and invokes neither its tool nor the
\* language model, single-shot or streaming.
C13_SkipWithoutLlm ==
    [][(/\ pc = "requirement_validation"
        /\ ~Has(state, "error")
        /\ ~TruthySeq(state, "requirements"))
       => /\ Has(state', "requirement_validation")
          /\ Has(state'["requirement_validation"], "skipped")
          /\ state'["requirement_validation"]["skipped"] = TRUE
          /\ Has(state'["requirement_validation"], "reason")
          /\ calls' = calls]_vars

\* the stage has skipped a run that was given an empty requirements dict
C13_Witness ==
    /\ pc = "generate_reports"
    /\ ~Has(state, "error")
    /\ Has(state, "requirements")
    /\ Has(state, "requirement_validation")
    /\ Has(state["requirement_validation"], "skipped")
    /\ \A i \in DOMAIN calls : calls[i] # "requirement_tool"

NoLocalInput(st) == ~TruthySeq(st, "file_paths") /\ ~TruthyStr(st, "code")

\* C14: the stage after ingestion is chosen by the routing policy.  No
\* external fetch is part of the graph, so every run is one whose fetch was
\* skipped: with one valid local file the local file-read yields exactly
\* one file record and no fault and the run goes on to the analysis; with
\* no local input the run goes straight to generate_reports, entering no
\* analysis stage.
C14_RoutingPolicy ==
    /\ NoLocalInput(state)
       => \A i \in DOMAIN trace : trace[i] \notin AnalysisStages
    /\ (/\ trace = <<"read_files">>
        /\ TruthySeq(state, "file_paths")
        /\ state["file_paths"] = <<"main.py">>)
       => /\ Len(state["files"]) = 1
          /\ ~Has(state, "error")
          /\ pc = "standards_check"

\* C15: when the tool of a stage returns an error result (no specification
\* loaded, no files to validate, the analysis failed), the failure is the
\* fault of the state from the return of that stage on.
C15_ToolErrorIsFault ==
    \A slot \in {"spec_validation", "requirement_validation",
                 "consolidated_report"} :
        (Has(state, slot) /\ Has(state[slot], "error")) => Has(state, "error")

Slots == {"standards_result", "spec_validation", "requirement_validation",
          "consolidated_report"}

WriterOf(slot) ==
    CASE slot = "standards_result" -> "standards_check"
      [] slot = "spec_validation" -> "spec_validation"
      [] slot = "requirement_validation" -> "requirement_validation"
      [] slot = "consolidated_report" -> "generate_reports"

\* C16: each result slot is written by one stage only, and a slot that is
\* written is never written again in the run.
C16_SlotsWrittenOnce ==
    [][\A slot \in Slots :
          /\ Has(state, slot)
             => (Has(state', slot) /\ state'[slot] = state[slot])
          /\ (~Has(state, slot) /\ Has(state', slot)) => pc = WriterOf(slot)]_vars

\* a run has ended with its four slots written
C16_Witness ==
    /\ pc = "END"
    /\ \A slot \in Slots : Has(state, slot)

\* C17: in every state after read_files has returned, if the fault is unset
\* then state.files is a non-empty list.
C17_FilesUnlessFault ==
    (pc # "read_files" /\ ~Has(state, "error"))
    => (Has(state, "files") /\ Len(state["files"]) >= 1)

\* two files were read, and they are still there after the analysis
C17_Witness ==
    /\ pc = "END"
    /\ ~Has(state, "error")
    /\ Len(state["files"]) = 2

\* the content heuristic of detect_language would say python
LooksLikePython(code) == Contains(code, "def ") /\ Contains(code, "import")

\* C18: a file the pipeline has analyzed, whose extension names no language
\* and whose content holds "def " and "import", has language python.
C18_HeuristicFallback ==
    (pc \notin {"read_files", "standards_check"} /\ ~Has(state, "error"))
    => \A i \in DOMAIN state["files"] :
          (/\ language_map(splitext(state["files"][i]["file_name"])) = ""
           /\ LooksLikePython(state["files"][i]["code"]))
          => state["files"][i]["language"] = "python"

-----------------------------------------------------------------------------
(* Properties of the scores *)

\* the violations the categories' results list, all together
RECURSIVE ViolationCount(_)
ViolationCount(steps) ==
    IF steps = <<>> THEN 0
    ELSE (IF Has(Head(steps)["json_analysis"], "detailed_violations")
          THEN Len(Head(steps)["json_analysis"]["detailed_violations"])
          ELSE 0) + ViolationCount(Tail(steps))

\* C19: for every set of per-category results, overall_compliance_score is
\* max(0, 100 - 10 * v), v the number of violations of all categories: it
\* is never below 0 (nor above 100) and does not grow with v.
C19_LinearPenalty ==
    call.fn = "SpecValidator._calculate_overall_metrics"
    => LET v == ViolationCount(call.validation_steps)
           score == call.result["overall_compliance_score"]
       IN  /\ score = (IF 100 - 10 * v > 0 THEN 100 - 10 * v ELSE 0)
           /\ score >= 0 /\ score <= 100
           /\ call.result["total_violations_found"] = v

\* more than ten violations: the floor is reached
C19_Witness ==
    /\ call.fn = "SpecValidator._calculate_overall_metrics"
    /\ ViolationCount(call.validation_steps) > 10
    /\ call.result["overall_compliance_score"] = 0

\* critical=5, high=4, medium=3, low=1, info=0
ClaimedWeight(severity) ==
    CASE severity = "critical" -> 5
      [] severity = "high" -> 4
      [] severity = "medium" -> 3
      [] severity = "low" -> 1
      [] severity = "info" -> 0

\* the sum of the weights of all the issues of the list
RECURSIVE W(_)
W(issues) ==
    IF issues = <<>> THEN 0
    ELSE ClaimedWeight(Head(issues)["severity"]) + W(Tail(issues))

\* C20: the security score of a list of issues is 10.0 when the list is
\* empty and otherwise max(1.0, 10.0 - min(0.5 * W, 9.0)), W the sum of the
\* severity weights of the issues of the list (scores in tenths).
C20_SecurityScore ==
    (/\ call.fn = "SecurityQualityAnalyzer._calculate_security_score"
     /\ \A i \in DOMAIN call.issues :
           /\ Has(call.issues[i], "severity")
           /\ call.issues[i]["severity"]
                  \in {"critical", "high", "medium", "low", "info"})
    => call.result = (IF call.issues = <<>> THEN 100
                      ELSE LET p == IF 5 * W(call.issues) < 90
                                    THEN 5 * W(call.issues) ELSE 90
                           IN  IF 100 - p > 10 THEN 100 - p ELSE 10)

\* the issues of the list that are of type security or vulnerability
SecurityIssues(issues) ==
    SelectSeq(issues, LAMBDA issue : issue["type"] \in {"security", "vulnerability"})

\* the weight of an issue: that of its severity, of low when it has none,
\* and 1 when its severity is none of the five names
RECURSIVE WeightOfAll(_)
WeightOfAll(issues) ==
    IF issues = <<>> THEN 0
    ELSE LET severity == IF Has(Head(issues), "severity")
                         THEN Head(issues)["severity"] ELSE "low"
         IN  (IF severity \in {"critical", "high", "medium", "low", "info"}
              THEN ClaimedWeight(severity) ELSE 1)
             + WeightOfAll(Tail(issues))

\* C20: the security score of a list of issues is 10.0 when the list is
\* empty and otherwise max(1.0, 10.0 - min(0.5 * W, 9.0)), W the sum of the
\* weights of the issues of type security or vulnerability only (scores in
\* tenths); issues of another type leave the score as it is.
C20_SecurityScoreOfSecurityIssues ==
    call.fn = "SecurityQualityAnalyzer._calculate_security_score"
    => LET weight == WeightOfAll(SecurityIssues(call.issues))
           p == IF 5 * weight < 90 THEN 5 * weight ELSE 90
       IN  call.result = (IF call.issues = <<>> THEN 100
                          ELSE IF 100 - p > 10 THEN 100 - p ELSE 10)

\* a list with a quality issue and security issues, scored below 10.0
C20_Witness ==
    /\ call.fn = "SecurityQualityAnalyzer._calculate_security_score"
    /\ \E i \in DOMAIN call.issues : call.issues[i]["type"] = "quality"
    /\ \E i \in DOMAIN call.issues : call.issues[i]["type"] = "security"
    /\ call.result < 100

\* the requirements counted in the first i categories
RECURSIVE CountSum(_, _)
CountSum(alignment_scores, i) ==
    IF i = 0 THEN 0
    ELSE alignment_scores[Categories[i]]["total"]
         + CountSum(alignment_scores, i - 1)

\* their confidence scores, each times its category's count
RECURSIVE ConfidenceSum(_, _)
ConfidenceSum(alignment_scores, i) ==
    IF i = 0 THEN 0
    ELSE alignment_scores[Categories[i]]["average_confidence_score"]
             * alignment_scores[Categories[i]]["total"]
         + ConfidenceSum(alignment_scores, i - 1)

\* C21: the overall alignment score of a requirement-validation result lies
\* in [0, 100] and is the average of the four categories'
\* average_confidence_score, each weighted by its share of the total
\* requirement count; it is 0 when the total is 0.
C21_WeightedAlignment ==
    (/\ call.fn = "ConsolidatedReporter._extract_requirements_data"
     /\ call.result["available"])
    => LET score == AlignmentScore(call.requirement_data)["num"]
           alignment_scores == call.requirement_data["comprehensive_analysis"]
                                                    ["overall_alignment_scores"]
           total == CountSum(alignment_scores, 4)
       IN  /\ score >= 0 /\ score <= 100
           /\ IF total = 0 THEN score = 0
              ELSE score * total = ConfidenceSum(alignment_scores, 4)

-----------------------------------------------------------------------------
(* Properties of a run, the last stage *)

\* the renderer returns an error result, raises, or names an HTML file
\* that was not created
BadRenderers == {env \in ReporterEnvs : env.tool # "ok" \/ ~env.exists}

\* C22: when the renderer returns an error result, raises, or reports an
\* HTML path that was not created, generate_reports sets the fault; the run
\* ends with that stage, so this fault is the final one.
C22_RendererFailureIsFinalFault ==
    /\ [](pc = "generate_reports" /\ ~Has(state, "error")
          => \A env \in BadRenderers :
                LET r == generate_reports_node(World, env)
                IN  /\ ~r.escaped
                    /\ Has(r.state, "error")
                    /\ r.state["error"] # ""
                    /\ Edge("generate_reports") = "END")
    /\ [][pc # "END"]_vars

\* the renderer named a file that is not there, and the run ended in fault
C22_Witness ==
    /\ pc = "END"
    /\ Has(state, "error")
    /\ state["error"] = "Report files were not created properly"
    /\ ReportProduced(state)

-----------------------------------------------------------------------------
(* Properties of the join *)

\* C23: in every interleaving of the structured and the narrative task of
\* an analyzer, both tasks have ended when the analyzer returns; no task
\* writes the shared state, and the stage's result slot is written once,
\* after the join.
C23_JoinBeforeReturn ==
    /\ [](call.at \in {"returned", "written"}
          => (call.json.at = "done" /\ call.stream.at = "done"))
    /\ [][state' # state
          => /\ call.at = "returned" /\ call'.at = "written"
             /\ ~Has(state, ResultSlot(StageOf(call.fn)))
             /\ state' = Put(state, ResultSlot(StageOf(call.fn)),
                             call.result)]_vars

\* the slot is written after a stream of two chunks and a structured call
\* that raised
C23_Witness ==
    /\ call.at = "written"
    /\ call.json.task.raises
    /\ call.stream.delivered = 2
    /\ Has(state, ResultSlot(StageOf(call.fn)))

\* C24: for every finite stream of chunks, the text the narrative task has
\* accumulated is the concatenation, in delivery order, of every chunk
\* delivered so far: no chunk, a chunk of white space included, is dropped,
\* duplicated or reordered.
C24_AccumulatesEveryChunk ==
    call.stream.full_response
        = Accumulate(SubSeq(call.stream.task.chunks, 1, call.stream.delivered))

-----------------------------------------------------------------------------
(* Properties of a run: ingestion and the files *)

\* the number of files read_files can read under the paths
RECURSIVE ReadableCount(_)
ReadableCount(paths) ==
    IF paths = <<>> THEN 0
    ELSE (IF isdir(Head(paths))
          THEN Cardinality({j \in DOMAIN DirFiles(Head(paths)) :
                               Readable(DirFiles(Head(paths))[j])})
          ELSE IF isfile(Head(paths)) /\ Readable(Head(paths)) THEN 1 ELSE 0)
         + ReadableCount(Tail(paths))

\* an entry of the list is not a path at all
NotAPath(paths) == \E i \in DOMAIN paths : paths[i] = InvalidPath

\* what read_files leaves when it took inline code, or nothing
InlineOrNothing(given, left) ==
    IF TruthyStr(given, "code")
    THEN /\ ~Has(left, "error")
         /\ Len(left["files"]) = 1
         /\ left["files"][1]["code"] = given["code"]
    ELSE Has(left, "error")

C26_FilesOnlyFromIngestion ==
    [][(pc # "read_files" /\ Has(state, "files"))
       => (Has(state', "files") /\ state'["files"] = state["files"])]_vars

-----------------------------------------------------------------------------
(* Properties of the event loop *)

\* C27: while a stage waits on an external tool (the static analyzers'
\* subprocesses, a validator's work with the language model), the event
\* loop is not blocked: another task scheduled on the same loop can take a
\* step before the call completes.
C27_LoopNotBlocked ==
    (call.at = "in_tool" /\ call.other < MaxOtherSteps) => ENABLED OtherStep

-----------------------------------------------------------------------------
(* Properties of a run: the report's data *)

\* C28: whenever spec_validation has stored a result without an error and
\* no fault is set, the analysis data the reporter assembles from the state
\* has a specification section that is marked available and carries the
\* stage's overall_metrics.
C28_ReportCarriesSpecValidation ==
    (/\ pc = "generate_reports"
     /\ ~Has(state, "error")
     /\ Has(state, "spec_validation")
     /\ ~Has(state["spec_validation"], "error"))
    => LET yaml_spec == _extract_analysis_data(state)["yaml_spec"]
       IN  /\ yaml_spec["available"]
           /\ yaml_spec["overall_metrics"]
                 = state["spec_validation"]["overall_metrics"]

-----------------------------------------------------------------------------
(* Properties of the sessions file, continued *)

\* C29: a call save_node_result(s, n, m) made with no concurrent writer
\* changes only key n of the record of session s: afterwards
\* get_session_results(s)[n] = m, every other key of that record
\* (session_id and timestamp included) and every other session's record
\* are unchanged, and no record is removed.
C29_SaveChangesOneKey ==
    [][saved' # saved
       => LET s == saved'[Len(saved')][1]
              n == saved'[Len(saved')][2]
              m == saved'[Len(saved')][3]
              known == \E i \in DOMAIN sessions_file :
                           sessions_file[i]["session_id"] = s
          IN  /\ get_session_results(sessions_file', s)[n] = m
              /\ Len(sessions_file')
                    = Len(sessions_file) + (IF known THEN 0 ELSE 1)
              /\ \A i \in DOMAIN sessions_file :
                    IF sessions_file[i]["session_id"] = s
                    THEN /\ DOMAIN sessions_file'[i]
                               = DOMAIN sessions_file[i] \cup {n}
                         /\ \A k \in DOMAIN sessions_file[i] \ {n} :
                               sessions_file'[i][k] = sessions_file[i][k]
                    ELSE sessions_file'[i] = sessions_file[i]
              /\ ~known
                 => DOMAIN sessions_file'[Len(sessions_file')]
                       = {"session_id", "timestamp", n}]_vars

\* a result of one session is saved again, next to the session's other
\* result and to another session's record
C29_Witness ==
    /\ Len(saved) = 4
    /\ saved[1] = <<"s1", "read_files", "ok">>
    /\ saved[4] = <<"s1", "read_files", "failed">>
    /\ Len(sessions_file) = 2
    /\ Has(sessions_file[1], "standards_check")
    /\ sessions_file[1]["read_files"] = "failed"

-----------------------------------------------------------------------------
(* Properties of a run: the step of the fault *)

\* C30: in every state of a run in which the fault is set, current_step
\* names the stage whose handler set the fault, and it keeps that value in
\* all later states of the run: no later stage updates current_step.
C30_StepNamesFaultingStage ==
    /\ [][(~Has(state, "error") /\ Has(state', "error"))
          => (Has(state', "current_step") /\ state'["current_step"] = pc)]_vars
    /\ [][Has(state, "error")
          => (/\ Has(state', "error")
              /\ state'["current_step"] = state["current_step"])]_vars

\* the fault of standards_check is still named at the end of the run
C30_Witness ==
    /\ pc = "END"
    /\ Has(state, "error")
    /\ state["current_step"] = "standards_check"

=============================================================================
